---- MODULE Spec2Model ----
(***************************************************************************)
(* EventTrackPro: the webhook notification pipeline of                     *)
(* backend/src/routes.ts (route handlers, triggerWebhooks and the          *)
(* DatabaseStorage they call) as a state machine.                          *)
(*                                                                         *)
(* The server is one event loop: a handler runs until its next await, and  *)
(* other requests run while it waits.  Every action below is one such      *)
(* slice: the effect of the awaited storage call or fetch, followed by     *)
(* the synchronous code up to the next await (or to the response).  The    *)
(* arrival of a request is merged with its first slice.                    *)
(***************************************************************************)
EXTENDS Integers, Sequences, FiniteSets, TLC

\* ------------------------------------------------------------------ bounds
MaxWebhooks == 2        \* serial ids handed out by the webhooks table
MaxEvents == 1          \* serial ids handed out by the events table
MaxRegistrations == 2   \* serial ids handed out by the registrations table
MaxStatusRegistrations == 1   \* of them, in the status tracker's runs
MaxRecordWebhooks == 1        \* webhooks stored in the records' runs

WebhookIds == 1..MaxWebhooks
EventIds == 1..MaxEvents
RegistrationIds == 1..MaxRegistrations
StatusRegistrationIds == 1..MaxStatusRegistrations

\* The slots of requests whose handler spans several slices; the
\* single-slice requests (the CRUD routes) run between any two of their
\* slices.  Two slots let two such requests interleave; the runs that
\* follow one request at a time use the first slot only.
Reqs == {1, 2}
Solo == {1}

\* ------------------------------------------------------- values and inputs
NULL == "<null>"        \* JavaScript null / undefined / an absent body key

\* shared/schema.ts: the fixed enumeration of event types
webhookEventTypes ==
    {"registration.created", "event.created", "event.updated", "attendance.updated"}

\* JavaScript truthiness of a string-or-null value: `if (webhook.secret)`
Truthy(v) == v # NULL /\ v # ""

\* a || b on string-or-null values
OrElse(v, d) == IF Truthy(v) THEN v ELSE d

Sessions == {"none", "admin"}

\* requireAuth: the request passes when its session carries a userId
requireAuth(session) == session = "admin"

\* bodies of POST /api/webhooks that pass webhookSchema (active defaults to
\* true, secret is optional: NULL)
WebhookBodies ==
    { [url |-> "https://hooks.example/a", secret |-> "s3cr3t",
       events |-> {"event.created"}, active |-> TRUE],
      [url |-> "https://hooks.example/b", secret |-> NULL,
       events |-> {"registration.created"}, active |-> TRUE] }

\* bodies of PUT /api/webhooks/:id that pass webhookSchema.partial(); keys
\* names the keys the body carries
WebhookPatches ==
    { [keys |-> {"active"}, active |-> FALSE, secret |-> NULL],
      [keys |-> {"secret"}, active |-> TRUE, secret |-> ""] }

\* capacities the create-event bodies of the status tracker's runs carry
StatusCapacities == {1}

\* capacities the event bodies of the records' runs carry: insertEventSchema
\* takes any integer
RecordCapacities == {0, 1}

\* capacities of PUT /api/events/:id bodies (insertEventSchema.partial():
\* any integer) and of POST /api/webhooks/zapier/events bodies
\* (externalEventSchema: a positive integer)
PutCapacities == {0, 2}
ExternalCapacities == {1}

\* webhooks of the events' runs: one subscriber of event.created, one of
\* event.updated
EventWebhookBodies ==
    { [url |-> "https://hooks.example/a", secret |-> "s3cr3t",
       events |-> {"event.created"}, active |-> TRUE],
      [url |-> "https://hooks.example/c", secret |-> NULL,
       events |-> {"event.updated"}, active |-> TRUE] }

\* webhookStatus values a registration body carries (NULL: key absent)
BodyWebhookStatus == {NULL, "sent", "not_sent"}

\* outcomes of one outbound POST: 2xx, non-2xx, network error
Outcomes == {"ok", "non2xx", "neterr"}

\* eventType values of POST /api/webhooks/trigger bodies: two of the
\* enumeration, one outside it, one with capitals and the empty string
TriggerTypes ==
    {"registration.created", "event.created", "custom.event", "Event.Created", ""}

\* the strings among the inputs that match /^[a-z]+\.[a-z]+$/
LowerDotLower == webhookEventTypes \cup {"custom.event"}

\* data values of POST /api/webhooks/trigger and /test bodies (NULL: absent)
DataBodies == {NULL, "{}"}

\* data of a trigger body that is a JSON string, not an object
TextData == "text"
TriggerData == DataBodies \cup {TextData}

\* typeof data
typeof(data) ==
    CASE data = NULL -> "undefined"
      [] data = TextData -> "string"
      [] OTHER -> "object"

\* a webhookStatus that is a number: insertRegistrationSchema takes a string
NotAString == "<number>"
RegistrationBodyStatus == {NULL, NotAString}

\* validateBody(insertRegistrationSchema, req, res): schema.parse(req.body)
\* passes (the parsed body) or answers 400 and gives null
validateBody_Pass(status) == TRUE

validateBody(status) == status # NotAString

\* ------------------------------------------------- strings and JS values
\* the character of s at position i (from 1)
Ch(s, i) == SubSeq(s, i, i)

UpperCase == "ABCDEFGHIJKLMNOPQRSTUVWXYZ"
LowerCase == "abcdefghijklmnopqrstuvwxyz"
Digits == "0123456789"

\* the characters of a string, as a set
Chars(s) == { Ch(s, i) : i \in 1..Len(s) }
UpperChars == Chars(UpperCase)
SnakeChars == Chars(LowerCase) \cup Chars(Digits) \cup {"_"}
WordChars == UpperChars \cup SnakeChars

\* String.prototype.toLowerCase, one character
LowerOf == [c \in UpperChars |->
               Ch(LowerCase, CHOOSE i \in 1..Len(UpperCase) : Ch(UpperCase, i) = c)]
LowerCh(c) == IF c \in UpperChars THEN LowerOf[c] ELSE c

\* String.prototype.toLowerCase
RECURSIVE toLowerCase(_)
toLowerCase(s) ==
    IF s = "" THEN "" ELSE LowerCh(Ch(s, 1)) \o toLowerCase(SubSeq(s, 2, Len(s)))

\* String.prototype.includes
includes(s, sub) ==
    \E i \in 1..(Len(s) - Len(sub) + 1) : SubSeq(s, i, i + Len(sub) - 1) = sub

\* the regular expression classes \w and \s, and [a-z0-9_]
IsWord(c) == c \in WordChars
IsSpace(c) == c = " "
IsSnake(c) == c \in SnakeChars

\* key.replace(/(\w{8})(\w{4})(\w{4})(\w{4})(\w{12})/, '$1-$2-$3-$4-$5'): the
\* leftmost run of 32 word characters is regrouped 8-4-4-4-12, the rest of
\* the key stays
WordRunAt(s, i) == i + 31 <= Len(s) /\ \A j \in i..(i + 31) : IsWord(Ch(s, j))

cleanedKey_Same(key) == key

cleanedKey(key) ==
    IF \E i \in 1..Len(key) : WordRunAt(key, i)
    THEN LET i == CHOOSE k \in 1..Len(key) :
                      WordRunAt(key, k) /\ \A m \in 1..(k - 1) : ~WordRunAt(key, m)
         IN  SubSeq(key, 1, i - 1)
             \o SubSeq(key, i, i + 7) \o "-" \o SubSeq(key, i + 8, i + 11) \o "-"
             \o SubSeq(key, i + 12, i + 15) \o "-" \o SubSeq(key, i + 16, i + 19) \o "-"
             \o SubSeq(key, i + 20, i + 31)
             \o SubSeq(key, i + 32, Len(key))
    ELSE key

\* .replace(/\s+/g, '_'): every run of whitespace becomes one underscore
RECURSIVE SpacesToUnderscore(_)
SpacesToUnderscore(s) ==
    IF s = "" THEN ""
    ELSE IF IsSpace(Ch(s, 1))
    THEN IF Len(s) > 1 /\ IsSpace(Ch(s, 2))
         THEN SpacesToUnderscore(SubSeq(s, 2, Len(s)))
         ELSE "_" \o SpacesToUnderscore(SubSeq(s, 2, Len(s)))
    ELSE Ch(s, 1) \o SpacesToUnderscore(SubSeq(s, 2, Len(s)))

\* .replace(/[^a-z0-9_]/g, '')
RECURSIVE KeepSnake(_)
KeepSnake(s) ==
    IF s = "" THEN ""
    ELSE (IF IsSnake(Ch(s, 1)) THEN Ch(s, 1) ELSE "")
         \o KeepSnake(SubSeq(s, 2, Len(s)))

\* fieldLabel.toLowerCase().replace(/\s+/g, '_').replace(/[^a-z0-9_]/g, '')
snakeCaseLabel(fieldLabel) == KeepSnake(SpacesToUnderscore(toLowerCase(fieldLabel)))

\* value.split(' '): the part before the first space, and
\* nameParts.slice(1).join(' '), the text after it
HasSpace(s) == \E i \in 1..Len(s) : Ch(s, i) = " "
FirstSpace(s) == CHOOSE i \in 1..Len(s) : Ch(s, i) = " " /\ \A j \in 1..(i - 1) : Ch(s, j) # " "
FirstPart(s) == IF HasSpace(s) THEN SubSeq(s, 1, FirstSpace(s) - 1) ELSE s
RestParts(s) == IF HasSpace(s) THEN SubSeq(s, FirstSpace(s) + 1, Len(s)) ELSE ""

\* JavaScript values: the type and the text String(value) gives
Str(text) == [type |-> "string", text |-> text]
Num(text) == [type |-> "number", text |-> text]
Bool(text) == [type |-> "boolean", text |-> text]
Undefined == [type |-> "undefined", text |-> "undefined"]
Null == [type |-> "null", text |-> "null"]

\* String(value)
String(value) == Str(value.text)

\* truthiness of a value, and a || b
JsTruthy(v) ==
    CASE v.type \in {"undefined", "null"} -> FALSE
      [] v.type = "string" -> v.text # ""
      [] v.type = "number" -> v.text # "0"
      [] v.type = "boolean" -> v.text = "true"
      [] OTHER -> TRUE
JsOr(v, d) == IF JsTruthy(v) THEN v ELSE d

\* FORM_FIELD_LABELS: field id -> label
FORM_FIELD_LABELS ==
    [id \in {"4a2b99cf-7244-4e93-8f29-2e02c6845960",
             "50592742-6389-40ea-8a85-c4291e99f545",
             "5a2aa210-8c3d-485e-878b-0c8dceb0f9bc",
             "7a006b3a-6516-4981-a333-e92b98970f29",
             "156e810e-d049-4f37-98a9-3763abdb7386",
             "7d903ce3-3998-4c37-94f9-8d0257b8d279",
             "4c72cf83-105b-4cbd-bc9b-dd4f099493a9",
             "7d8d5ace-d95e-4dab-bb71-ac8bf272c572",
             "41bf2047-cd0b-41f2-ad7c-4d7bb462ab44"} |->
        CASE id = "4a2b99cf-7244-4e93-8f29-2e02c6845960" -> "First Name"
          [] id = "50592742-6389-40ea-8a85-c4291e99f545" -> "Last Name"
          [] id = "5a2aa210-8c3d-485e-878b-0c8dceb0f9bc" -> "Email"
          [] id = "7a006b3a-6516-4981-a333-e92b98970f29" -> "Phone"
          [] id = "156e810e-d049-4f37-98a9-3763abdb7386" -> "Tell me a bit about yourself"
          [] id = "7d903ce3-3998-4c37-94f9-8d0257b8d279" -> "What do you do for work?"
          [] id = "4c72cf83-105b-4cbd-bc9b-dd4f099493a9" -> "Are you familiar with Notion?"
          [] id = "7d8d5ace-d95e-4dab-bb71-ac8bf272c572" -> "What is your main currency"
          [] id = "41bf2047-cd0b-41f2-ad7c-4d7bb462ab44" -> "Select event"]

\* the property names every object literal inherits from Object.prototype
ObjectPrototypeKeys ==
    {"constructor", "toString", "toLocaleString", "valueOf", "hasOwnProperty",
     "isPrototypeOf", "propertyIsEnumerable", "__proto__"}

\* FORM_FIELD_LABELS[key]: the label, an inherited member of the object
\* (a function, or Object.prototype for __proto__), or undefined
LabelOf(key) ==
    IF key \in DOMAIN FORM_FIELD_LABELS THEN Str(FORM_FIELD_LABELS[key])
    ELSE IF key = "__proto__" THEN [type |-> "object", text |-> "[object Object]"]
    ELSE IF key \in ObjectPrototypeKeys THEN [type |-> "function", text |-> key]
    ELSE Undefined

\* FORM_FIELD_LABELS[cleanedKey] || FORM_FIELD_LABELS[key] || key
fieldLabel(key) == JsOr(LabelOf(cleanedKey(key)), JsOr(LabelOf(key), Str(key)))

\* --------------------------------------------- the registration payload
\* keys of formData in the runs of the normalizer, in the order the jsonb
\* column returns them to Object.entries (shorter keys first, then by bytes)
MaxFormKeys == 2        \* keys of one formData

FormKeys ==
    <<"name", "email", "company", "eventName", "First Name", "constructor",
      "event_title", "Email Address",
      "4a2b99cf72444e938f292e02c6845960", "5a2aa2108c3d485e878b0c8dceb0f9bc",
      "4a2b99cf-7244-4e93-8f29-2e02c6845960", "50592742-6389-40ea-8a85-c4291e99f545",
      "5a2aa210-8c3d-485e-878b-0c8dceb0f9bc">>

FormKeySet == { FormKeys[i] : i \in DOMAIN FormKeys }

\* values of form fields: a string and a number
FormValues == {Str("Ada Lovelace"), Num("7")}

\* the formData objects of the runs
FormDatas ==
    UNION { [keys -> FormValues] :
              keys \in { k \in SUBSET FormKeySet : Cardinality(k) <= MaxFormKeys } }

\* Object.entries(formData): the keys in stored order
RECURSIVE EntriesFrom(_, _)
EntriesFrom(formData, i) ==
    IF i > Len(FormKeys) THEN <<>>
    ELSE (IF FormKeys[i] \in DOMAIN formData THEN <<FormKeys[i]>> ELSE <<>>)
         \o EntriesFrom(formData, i + 1)
ObjectEntries(formData) == EntriesFrom(formData, 1)

\* the stored registration the payload is built for
PayloadRegistrations ==
    { [id |-> Num("1"), status |-> Str("confirmed"), webhookStatus |-> Str("not_sent"),
       createdAt |-> Str("2025-01-01T10:00:00.000Z"), formData |-> formData] :
      formData \in FormDatas }

\* storage.getEvent(registration.eventId): no row (the event was deleted),
\* a row with every column set, a row with the nullable columns null and
\* capacity 0
NoEvent ==
    [present |-> FALSE, title |-> Undefined, description |-> Undefined,
     date |-> Undefined, location |-> Undefined, startTime |-> Undefined,
     endTime |-> Undefined, capacity |-> Undefined]
FullEvent ==
    [present |-> TRUE, title |-> Str("Launch"), description |-> Str("Party"),
     date |-> Str("2025-02-01"), location |-> Str("Hall"), startTime |-> Str("18:00"),
     endTime |-> Str("20:00"), capacity |-> Num("5")]
SparseEvent ==
    [present |-> TRUE, title |-> Str("Launch"), description |-> Null,
     date |-> Str("2025-02-01"), location |-> Null, startTime |-> Null,
     endTime |-> Null, capacity |-> Num("0")]
PayloadEvents == {NoEvent, FullEvent, SparseEvent}

\* new Date().toISOString() at two moments
Instants == {"2025-03-01T09:00:00.000Z", "2025-03-02T09:00:00.000Z"}

\* webhookPayload[key] = value
Put(payload, key, value) ==
    [k \in DOMAIN payload \cup {key} |-> IF k = key THEN value ELSE payload[k]]

\* the first loop over Object.entries(formData): firstName, lastName and
\* email by substrings of the lower-cased key
ScanStep(acc, key, value) ==
    LET keyLower == toLowerCase(key)
    IN  IF key = "eventName" THEN acc
        ELSE IF includes(keyLower, "first") \/ includes(keyLower, "fname")
        THEN [acc EXCEPT !.firstName = String(value)]
        ELSE IF includes(keyLower, "last") \/ includes(keyLower, "lname")
        THEN [acc EXCEPT !.lastName = String(value)]
        ELSE IF keyLower = "name" \/ keyLower = "fullname"
        THEN IF ~JsTruthy(acc.firstName) /\ ~JsTruthy(acc.lastName)
                /\ value.type = "string"
             THEN IF HasSpace(value.text)
                  THEN [acc EXCEPT !.firstName = Str(FirstPart(value.text)),
                                   !.lastName = Str(RestParts(value.text))]
                  ELSE [acc EXCEPT !.firstName = value]
             ELSE acc
        ELSE IF includes(keyLower, "email")
        THEN [acc EXCEPT !.email = String(value)]
        ELSE acc

RECURSIVE ScanFrom(_, _, _, _)
ScanFrom(acc, formData, entries, i) ==
    IF i > Len(entries) THEN acc
    ELSE ScanFrom(ScanStep(acc, entries[i], formData[entries[i]]), formData, entries, i + 1)

ScanFields(formData) ==
    ScanFrom([firstName |-> Str(""), lastName |-> Str(""), email |-> Str("")],
             formData, ObjectEntries(formData), 1)

\* one round of the second loop: the label of the key, its snake_case
\* form as a payload key, the form_<key> copy (creation only), and
\* first_name, last_name, email for the three known labels.  A label that
\* is not a string has no toLowerCase: the call throws a TypeError.
LabelStep(acc, key, value, formCopy) ==
    LET label == fieldLabel(key)
    IN  IF acc.threw THEN acc
        ELSE IF label.type # "string" THEN [acc EXCEPT !.threw = TRUE]
        ELSE LET p1 == Put(acc.payload, snakeCaseLabel(label.text), value)
                 p2 == IF formCopy THEN Put(p1, "form_" \o key, value) ELSE p1
                 p3 == CASE label.text = "First Name" -> Put(p2, "first_name", String(value))
                         [] label.text = "Last Name" -> Put(p2, "last_name", String(value))
                         [] label.text = "Email" -> Put(p2, "email", String(value))
                         [] OTHER -> p2
             IN  [acc EXCEPT !.payload = p3]

RECURSIVE LabelFrom(_, _, _, _, _)
LabelFrom(acc, formData, entries, i, formCopy) ==
    IF i > Len(entries) THEN acc
    ELSE LabelFrom(LabelStep(acc, entries[i], formData[entries[i]], formCopy),
                   formData, entries, i + 1, formCopy)

LabelFields(payload, formData, formCopy) ==
    LabelFrom([threw |-> FALSE, payload |-> payload], formData,
              ObjectEntries(formData), 1, formCopy)

\* what a route makes of the payload construction: the payload it hands to
\* triggerWebhooks, or the response it gives instead
Built(payload) == [outcome |-> "built", payload |-> payload]
Threw == [outcome |-> "threw", payload |-> <<>>]
EventNotFound == [outcome |-> "404", payload |-> <<>>]

\* POST /api/registrations, lines 557-670: the payload of a new registration
CreationPayload(registration, event) ==
    LET scan == ScanFields(registration.formData)
        base ==
            [event_title |-> JsOr(event.title, Str("Unknown Event")),
             event_description |-> JsOr(event.description, Str("")),
             event_date |-> JsOr(event.date, Str("")),
             event_location |-> JsOr(event.location, Str("")),
             event_start_time |-> JsOr(event.startTime, Str("")),
             event_end_time |-> JsOr(event.endTime, Str("")),
             event_capacity |-> JsOr(event.capacity, Num("0")),
             first_name |-> scan.firstName,
             last_name |-> scan.lastName,
             email |-> scan.email,
             registration_id |-> registration.id,
             registration_status |-> registration.status,
             webhook_status |-> JsOr(registration.webhookStatus, Str("pending")),
             submitted_at |-> registration.createdAt]
        done == LabelFields(base, registration.formData, TRUE)
    IN  IF done.threw THEN Threw ELSE Built(done.payload)

\* POST /api/registrations/:id/webhook, lines 799-917: 404 when the event is
\* gone, otherwise the payload of the re-send
ResendPayload(registration, event, now) ==
    LET base ==
            [event_title |-> JsOr(event.title, Str("Unknown Event")),
             event_description |-> JsOr(event.description, Str("")),
             event_date |-> JsOr(event.date, Str("")),
             event_location |-> JsOr(event.location, Str("")),
             event_start_time |-> JsOr(event.startTime, Str("")),
             event_end_time |-> JsOr(event.endTime, Str("")),
             event_capacity |-> JsOr(event.capacity, Num("0")),
             manually_triggered |-> Bool("true"),
             triggered_at |-> Str(now),
             registration_id |-> registration.id,
             registration_status |-> registration.status,
             webhook_status |-> JsOr(registration.webhookStatus, Str("pending")),
             submitted_at |-> registration.createdAt]
        done == LabelFields(base, registration.formData, FALSE)
    IN  IF ~event.present THEN EventNotFound
        ELSE IF done.threw THEN Threw
        ELSE Built(done.payload)

\* the normalizer before it has been given a registration
NoRegistration ==
    [id |-> Num("0"), status |-> Str(""), webhookStatus |-> Str(""),
     createdAt |-> Str(""), formData |-> <<>>]
IdleNormalizer == [registration |-> NoRegistration, event |-> NoEvent, built |-> <<>>]

\* ---------------------------------------------------------------- state
VARIABLES
    webhooks,        \* webhooks table: id -> row
    events,          \* events table: id -> row
    registrations,   \* registrations table: id -> row
    nextId,          \* the three serial sequences
    req,             \* the requests in flight, one record per slot
    sentBy,          \* history: who stored "sent" on a registration id
    anonymousWrite,  \* history: a request without a session has changed or
                     \* deleted a stored registration
    normalizer       \* the payload construction: a stored registration, the
                     \* event read for it, the payloads built for them

vars == <<webhooks, events, registrations, nextId, req, sentBy, anonymousWrite, normalizer>>

\* a slot that holds no request
IdleReq ==
    [kind |-> "idle", pc |-> "idle", rid |-> 0, eid |-> 0, wid |-> 0,
     etype |-> "", body |-> NULL, regStatus |-> NULL, capacity |-> 0,
     payload |-> <<>>, subs |-> <<>>, deliv |-> <<>>,
     lookup |-> "none", returned |-> FALSE, success |-> FALSE,
     update |-> "none", code |-> 0, message |-> ""]

Init ==
    /\ webhooks = <<>>
    /\ events = <<>>
    /\ registrations = <<>>
    /\ nextId = [webhooks |-> 1, events |-> 1, registrations |-> 1]
    /\ req = [q \in Reqs |-> IdleReq]
    /\ sentBy = [r \in RegistrationIds |-> {}]
    /\ anonymousWrite = FALSE
    /\ normalizer = IdleNormalizer

\* ------------------------------------------------------ storage (tables)
\* db.insert(...).values(row).returning(): the row is stored under the next
\* serial id
InsertRow(table, id, row) == table @@ (id :> row)

\* db.delete(...).where(eq(id)): the row is gone, other rows are untouched
DeleteRow(table, id) == [k \in DOMAIN table \ {id} |-> table[k]]

\* DatabaseStorage.createWebhook: secret "" is stored as null
createWebhook(body) ==
    [url |-> body.url, events |-> body.events,
     secret |-> OrElse(body.secret, NULL), active |-> body.active]

\* DatabaseStorage.updateWebhook: .set(webhookUpdate) changes supplied keys
updateWebhook(row, patch) ==
    [url |-> row.url,
     events |-> row.events,
     secret |-> IF "secret" \in patch.keys THEN patch.secret ELSE row.secret,
     active |-> IF "active" \in patch.keys THEN patch.active ELSE row.active]

\* DatabaseStorage.createEvent: the row of the body (capacity is the field
\* the pipeline reads)
createEvent(body) == [capacity |-> body.capacity]

\* DatabaseStorage.updateEvent: .set(eventUpdate) on the row
updateEvent(row, patch) == [row EXCEPT !.capacity = patch.capacity]

\* DatabaseStorage.getWebhooksByEvent: active = true AND events @> [eventType]
getWebhooksByEvent_IgnoreActive(table, eventType) ==
    { w \in DOMAIN table : eventType \in table[w].events }

getWebhooksByEvent_IgnoreEvent(table, eventType) ==
    { w \in DOMAIN table : table[w].active }

getWebhooksByEvent(table, eventType) ==
    { w \in DOMAIN table : table[w].active /\ eventType \in table[w].events }

\* DatabaseStorage.createRegistration: the body's webhookStatus is kept when
\* it is truthy, "not_sent" otherwise
createRegistration_DefaultSent(body) ==
    [eventId |-> body.eventId,
     webhookStatus |-> OrElse(body.webhookStatus, "sent")]

createRegistration(body) ==
    [eventId |-> body.eventId,
     webhookStatus |-> OrElse(body.webhookStatus, "not_sent")]

\* DatabaseStorage.updateRegistration: .set(registrationUpdate) on the row
\* with that id; no row, no change
updateRegistration(table, id, patch) ==
    IF id \in DOMAIN table
    THEN [table EXCEPT ![id].webhookStatus =
              IF patch.webhookStatus = NULL THEN @ ELSE patch.webhookStatus]
    ELSE table

\* DatabaseStorage.getEventRegistrationCount
getEventRegistrationCount(table, eventId) ==
    Cardinality({ r \in DOMAIN table : table[r].eventId = eventId })

\* ------------------------------------------------------------ dispatcher
\* JSON.stringify(payload): the serialized body, one text per payload
JSONstringify(payload) == <<"json", payload>>

\* crypto.createHmac('sha256', secret).update(text).digest('hex')
HmacSha256Hex(secret, text) == <<"hmac-sha256", secret, text>>

\* a request without the X-Webhook-Signature header
NoSignature == <<>>

\* triggerWebhooks, headers of one delivery: the signature is added when
\* the webhook's secret is truthy
SignatureHeader_AnySecret(webhook, payload) ==
    IF webhook.secret # NULL
    THEN HmacSha256Hex(webhook.secret, JSONstringify(payload))
    ELSE NoSignature

SignatureHeader(webhook, payload) ==
    IF Truthy(webhook.secret)
    THEN HmacSha256Hex(webhook.secret, JSONstringify(payload))
    ELSE NoSignature

\* triggerWebhooks, one element of webhooks.map: fetch(webhook.url, POST)
Post(webhook, payload) ==
    [st |-> "pending", attempts |-> 1, url |-> webhook.url,
     signature |-> SignatureHeader(webhook, payload),
     body |-> JSONstringify(payload)]

\* POST /api/webhooks/test: the single delivery, signed the same way
TestPost(webhook, payload) ==
    [st |-> "pending", attempts |-> 1, url |-> webhook.url,
     signature |-> IF Truthy(webhook.secret)
                   THEN HmacSha256Hex(webhook.secret, JSONstringify(payload))
                   ELSE NoSignature,
     body |-> JSONstringify(payload)]

\* webhooks.map(async (webhook) => ...): every async body runs up to its
\* fetch at once, so all POSTs are issued in this slice
FanOut(subs, payload) == [w \in DOMAIN subs |-> Post(subs[w], payload)]

\* one delivery settles: response.ok returns true, a non-2xx status throws
\* and a network error rejects; both are caught and return false.  There is
\* no second attempt.
OnSettled_Retry(d, outcome) ==
    IF outcome # "ok" /\ d.attempts < 2
    THEN [d EXCEPT !.attempts = @ + 1]
    ELSE [d EXCEPT !.st = outcome]

OnSettled(d, outcome) == [d EXCEPT !.st = outcome]

\* Promise.allSettled(promises) resolves when no delivery is outstanding
AllSettled_Never(deliv) == FALSE

AllSettled_Any(deliv) == \E w \in DOMAIN deliv : deliv[w].st # "pending"

AllSettled(deliv) == \A w \in DOMAIN deliv : deliv[w].st # "pending"

\* results.some(result => result.status === 'fulfilled' && result.value)
AggregateResult_Every(deliv) == \A w \in DOMAIN deliv : deliv[w].st = "ok"

AggregateResult(deliv) == \E w \in DOMAIN deliv : deliv[w].st = "ok"

\* res.status(code).json({message}): the request has responded
Respond(r, code, message) ==
    [r EXCEPT !.pc = "done", !.code = code, !.message = message]

\* res.status(404).json({message}): the record the request names is absent
NotFound_Ok(r, message) == Respond(r, 200, message)

NotFound(r, message) == Respond(r, 404, message)

\* POST /api/webhooks/test: `if (!webhook.active)` refuses the test
Testable_Any(webhook) == TRUE

Testable(webhook) == webhook.active

\* the status tracker: `if (success)` storage.updateRegistration(id,
\* {webhookStatus: "sent"}); nothing is written otherwise (NULL)
TrackerPatch_Never(success) == NULL

TrackerPatch_Always(success) == "sent"

TrackerPatch_Reset(success) == IF success THEN "sent" ELSE "not_sent"

TrackerPatch(success) == IF success THEN "sent" ELSE NULL

\* POST /api/registrations after `await triggerWebhooks(...)`
AfterTriggerCreateRegistration(r) ==
    IF TrackerPatch(r.success) # NULL THEN [r EXCEPT !.pc = "update"]
    ELSE Respond(r, 201, "")

\* POST /api/registrations/:id/webhook after `await triggerWebhooks(...)`
AfterTriggerResend(r) ==
    IF TrackerPatch(r.success) # NULL THEN [r EXCEPT !.pc = "update"]
    ELSE Respond(r, 200, "No webhooks were triggered")

\* POST /api/webhooks/trigger after `await triggerWebhooks(...)`
AfterTriggerTrigger_ErrorOnFailure(r) ==
    IF r.success THEN Respond(r, 200, "Webhook triggered successfully")
    ELSE Respond(r, 500, "Failed to trigger webhook")

AfterTriggerTrigger(r) ==
    IF r.success THEN Respond(r, 200, "Webhook triggered successfully")
    ELSE Respond(r, 200, "No webhooks were triggered")

\* POST /api/events after `await triggerWebhooks(...)`
AfterTriggerCreateEvent(r) == Respond(r, 201, "")

\* the caller's code that follows the return of triggerWebhooks
AfterTrigger(r) ==
    CASE r.kind = "createRegistration" -> AfterTriggerCreateRegistration(r)
      [] r.kind = "resend" -> AfterTriggerResend(r)
      [] r.kind = "trigger" -> AfterTriggerTrigger(r)
      [] r.kind = "createEvent" -> AfterTriggerCreateEvent(r)

\* triggerWebhooks returns `success` to its caller
Return(r, success) == AfterTrigger([r EXCEPT !.returned = TRUE, !.success = success])

\* triggerWebhooks up to the fetches: the subscriber lookup (dbOk: the
\* query did not throw), the empty-list return, the fan-out
triggerWebhooks(r, table, dbOk) ==
    IF ~dbOk THEN Return([r EXCEPT !.lookup = "threw"], FALSE)
    ELSE LET ids == getWebhooksByEvent(table, r.etype)
             subs == [w \in ids |-> table[w]]
             r1 == [r EXCEPT !.lookup = "ok", !.subs = subs]
         IN  IF ids = {} THEN Return(r1, FALSE)
             ELSE [r1 EXCEPT !.deliv = FanOut(subs, r.payload), !.pc = "inflight"]

\* the kinds of request that call triggerWebhooks
DispatchKinds == {"createRegistration", "resend", "trigger", "createEvent"}

\* the kinds whose dispatch is linked to a registration
RegistrationKinds == {"createRegistration", "resend"}

\* --------------------------------------------------------------- payloads
\* POST /api/registrations and POST /api/registrations/:id/webhook: the
\* keys of webhookPayload that depend on the stored rows (an absent event
\* gives event_capacity 0)
RegistrationPayload(rid, regStatus, capacity, manual) ==
    [registration_id |-> rid,
     webhook_status |-> OrElse(regStatus, "pending"),
     event_capacity |-> capacity,
     manually_triggered |-> manual]

\* POST /api/events: the created row is the payload
EventPayload(id, row) == [id |-> id, capacity |-> row.capacity]

\* POST /api/webhooks/trigger: {...data, triggered_at, manual_trigger: true}
TriggerPayload(data) == [data |-> data, manual_trigger |-> TRUE]

\* POST /api/webhooks/test: {event_type, test: true, timestamp, ...data}
TestPayload(eventType, data) == [event_type |-> eventType, test |-> TRUE, data |-> data]

\* ------------------------------------------------- requests of one slice
\* A response leaves the server before anything else is looked at: a slot
\* that has responded is released (Finish) before the next slice of any
\* request runs.  Finish touches the slot only, so it commutes with every
\* other slice and no interleaving of storage effects is lost.
Quiet == \A q \in Reqs : req[q].pc # "done"

\* a slot can take a new request when it holds none
Free(q) == Quiet /\ req[q].pc = "idle"

\* the handler has returned after res.json(...)/res.end()
Finish(q) ==
    /\ req[q].pc = "done"
    /\ req' = [req EXCEPT ![q] = IdleReq]
    /\ UNCHANGED <<webhooks, events, registrations, nextId, sentBy, anonymousWrite, normalizer>>

\* POST /api/webhooks
PostWebhooks(session, body) ==
    /\ Quiet
    /\ nextId.webhooks <= MaxWebhooks
    /\ IF requireAuth(session)
       THEN /\ webhooks' = InsertRow(webhooks, nextId.webhooks, createWebhook(body))
            /\ nextId' = [nextId EXCEPT !.webhooks = @ + 1]
       ELSE UNCHANGED <<webhooks, nextId>>
    /\ UNCHANGED <<events, registrations, req, sentBy, anonymousWrite, normalizer>>

\* PUT /api/webhooks/:id
PutWebhook(session, id, patch) ==
    /\ Quiet
    /\ webhooks' = IF requireAuth(session) /\ id \in DOMAIN webhooks
                   THEN [webhooks EXCEPT ![id] = updateWebhook(@, patch)]
                   ELSE webhooks
    /\ UNCHANGED <<events, registrations, nextId, req, sentBy, anonymousWrite, normalizer>>

\* DELETE /api/webhooks/:id
DeleteWebhook(session, id) ==
    /\ Quiet
    /\ webhooks' = IF requireAuth(session) THEN DeleteRow(webhooks, id) ELSE webhooks
    /\ UNCHANGED <<events, registrations, nextId, req, sentBy, anonymousWrite, normalizer>>

\* DELETE /api/events/:id: the event row only, its registrations stay
DeleteEvent(session, id) ==
    /\ Quiet
    /\ events' = IF requireAuth(session) THEN DeleteRow(events, id) ELSE events
    /\ UNCHANGED <<webhooks, registrations, nextId, req, sentBy, anonymousWrite, normalizer>>

\* PUT and PATCH /api/registrations/:id with a body that carries
\* webhookStatus (insertRegistrationSchema.partial() lets it through).  The
\* routes are registered without requireAuth: the session is not looked at.
PutRegistration(session, id, status) ==
    /\ Quiet
    /\ registrations' = updateRegistration(registrations, id, [webhookStatus |-> status])
    /\ anonymousWrite' = (anonymousWrite \/ (~requireAuth(session)
                                              /\ registrations' # registrations))
    /\ sentBy' = IF id \in DOMAIN registrations /\ status = "sent"
                 THEN [sentBy EXCEPT ![id] = @ \cup {"client"}]
                 ELSE sentBy
    /\ UNCHANGED <<webhooks, events, nextId, req, normalizer>>

\* DELETE /api/registrations/:id, registered without requireAuth
DeleteRegistration(session, id) ==
    /\ Quiet
    /\ registrations' = DeleteRow(registrations, id)
    /\ anonymousWrite' = (anonymousWrite \/ (~requireAuth(session)
                                              /\ registrations' # registrations))
    /\ sentBy' = [sentBy EXCEPT ![id] = {}]
    /\ UNCHANGED <<webhooks, events, nextId, req, normalizer>>

\* ------------------------------------------------------ POST /api/events
\* requireAuth, validateBody, storage.createEvent, then triggerWebhooks is
\* called
PostEvents(q, session, capacity) ==
    /\ Free(q)
    /\ nextId.events <= MaxEvents
    /\ LET r == [IdleReq EXCEPT !.kind = "createEvent"]
           id == nextId.events
           row == [capacity |-> capacity]
       IN  IF requireAuth(session)
           THEN /\ events' = InsertRow(events, id, row)
                /\ nextId' = [nextId EXCEPT !.events = @ + 1]
                /\ req' = [req EXCEPT ![q] =
                              [r EXCEPT !.eid = id, !.etype = "event.created",
                                        !.payload = EventPayload(id, row),
                                        !.pc = "resolve"]]
           ELSE /\ req' = [req EXCEPT ![q] = Respond(r, 401, "Authentication required")]
                /\ UNCHANGED <<events, nextId>>
    /\ UNCHANGED <<webhooks, registrations, sentBy, anonymousWrite, normalizer>>

\* PUT /api/events/:id: requireAuth, storage.updateEvent, the response; no
\* call of triggerWebhooks
PutEvents(q, session, id, capacity) ==
    /\ Free(q)
    /\ LET r == [IdleReq EXCEPT !.kind = "updateEvent", !.eid = id]
       IN  IF ~requireAuth(session)
           THEN /\ req' = [req EXCEPT ![q] = Respond(r, 401, "Authentication required")]
                /\ UNCHANGED events
           ELSE IF id \notin DOMAIN events
           THEN /\ req' = [req EXCEPT ![q] = Respond(r, 404, "Event not found")]
                /\ UNCHANGED events
           ELSE /\ events' = [events EXCEPT ![id] = updateEvent(@, [capacity |-> capacity])]
                /\ req' = [req EXCEPT ![q] = Respond(r, 200, "")]
    /\ UNCHANGED <<webhooks, registrations, nextId, sentBy, anonymousWrite, normalizer>>

\* POST /api/webhooks/zapier/events: no requireAuth, externalEventSchema,
\* storage.createEvent, 201; no call of triggerWebhooks
PostZapierEvents(q, capacity) ==
    /\ Free(q)
    /\ nextId.events <= MaxEvents
    /\ LET id == nextId.events
           r == [IdleReq EXCEPT !.kind = "externalEvent", !.eid = id]
       IN  /\ events' = InsertRow(events, id, createEvent([capacity |-> capacity]))
           /\ nextId' = [nextId EXCEPT !.events = @ + 1]
           /\ req' = [req EXCEPT ![q] = Respond(r, 201, "")]
    /\ UNCHANGED <<webhooks, registrations, sentBy, anonymousWrite, normalizer>>

\* ----------------------------------------------- POST /api/registrations
\* registrations still to be inserted by requests in flight
PendingInserts ==
    Cardinality({ q \in Reqs : req[q].kind = "createRegistration"
                               /\ req[q].pc \in {"count", "insert"} })

\* validateBody, storage.getEvent(eventId): 404 when there is no such event
PostRegistrations(q, eventId, status) ==
    /\ Free(q)
    /\ nextId.registrations + PendingInserts <= MaxRegistrations
    /\ LET r == [IdleReq EXCEPT !.kind = "createRegistration", !.eid = eventId,
                                !.body = status]
       IN  req' = [req EXCEPT ![q] =
                IF ~validateBody(status) THEN Respond(r, 400, "Validation error")
                ELSE IF eventId \in DOMAIN events
                THEN [r EXCEPT !.capacity = events[eventId].capacity, !.pc = "count"]
                ELSE NotFound(r, "Event not found")]
    /\ UNCHANGED <<webhooks, events, registrations, nextId, sentBy, anonymousWrite, normalizer>>

\* the capacity check: registrationCount >= eventInfo.capacity
AtCapacity_Above(count, capacity) == count > capacity

AtCapacity(count, capacity) == count >= capacity

\* storage.getEventRegistrationCount(eventId) against eventInfo.capacity
RegistrationCount(q) ==
    /\ Quiet
    /\ req[q].kind = "createRegistration" /\ req[q].pc = "count"
    /\ LET r == req[q]
       IN  req' = [req EXCEPT ![q] =
                IF AtCapacity(getEventRegistrationCount(registrations, r.eid), r.capacity)
                THEN Respond(r, 400, "Event is at full capacity")
                ELSE [r EXCEPT !.pc = "insert"]]
    /\ UNCHANGED <<webhooks, events, registrations, nextId, sentBy, anonymousWrite, normalizer>>

\* storage.createRegistration(validatedData): the insert follows the check
\* in a later slice and looks at no count
RegistrationInsert_Recheck(q) ==
    /\ Quiet
    /\ req[q].kind = "createRegistration" /\ req[q].pc = "insert"
    /\ LET id == nextId.registrations
           row == createRegistration([eventId |-> req[q].eid,
                                      webhookStatus |-> req[q].body])
       IN  IF AtCapacity(getEventRegistrationCount(registrations, req[q].eid),
                         req[q].capacity)
           THEN /\ req' = [req EXCEPT ![q] =
                              Respond(req[q], 400, "Event is at full capacity")]
                /\ UNCHANGED <<registrations, nextId>>
           ELSE /\ registrations' = InsertRow(registrations, id, row)
                /\ nextId' = [nextId EXCEPT !.registrations = @ + 1]
                /\ req' = [req EXCEPT ![q] =
                              [req[q] EXCEPT !.rid = id,
                                             !.regStatus = row.webhookStatus,
                                             !.pc = "getEvent"]]
    /\ UNCHANGED <<webhooks, events, sentBy, anonymousWrite, normalizer>>

RegistrationInsert(q) ==
    /\ Quiet
    /\ req[q].kind = "createRegistration" /\ req[q].pc = "insert"
    /\ LET id == nextId.registrations
           row == createRegistration([eventId |-> req[q].eid,
                                      webhookStatus |-> req[q].body])
       IN  /\ registrations' = InsertRow(registrations, id, row)
           /\ nextId' = [nextId EXCEPT !.registrations = @ + 1]
           /\ req' = [req EXCEPT ![q] =
                         [req[q] EXCEPT !.rid = id, !.regStatus = row.webhookStatus,
                                        !.pc = "getEvent"]]
           /\ sentBy' = IF req[q].body = "sent"
                        THEN [sentBy EXCEPT ![id] = @ \cup {"client"}]
                        ELSE sentBy
    /\ UNCHANGED <<webhooks, events, anonymousWrite, normalizer>>

\* storage.getEvent(registration.eventId) for the payload, the payload, and
\* the call of triggerWebhooks("registration.created", webhookPayload).
\* This read is outside the try block around the dispatch: when it throws
\* (dbOk = FALSE) the handler's outer catch answers 500.
RegistrationGetEvent(q, dbOk) ==
    /\ Quiet
    /\ req[q].kind = "createRegistration" /\ req[q].pc = "getEvent"
    /\ LET r == req[q]
           capacity == IF r.eid \in DOMAIN events THEN events[r.eid].capacity ELSE 0
       IN  req' = [req EXCEPT ![q] =
                IF dbOk
                THEN [r EXCEPT !.etype = "registration.created",
                               !.payload = RegistrationPayload(r.rid, r.regStatus,
                                                               capacity, FALSE),
                               !.pc = "resolve"]
                ELSE Respond(r, 500, "Failed to create registration")]
    /\ UNCHANGED <<webhooks, events, registrations, nextId, sentBy, anonymousWrite, normalizer>>

\* ----------------------------------- POST /api/registrations/:id/webhook
\* storage.getRegistration(id): 404 when there is no such registration
PostRegistrationWebhook(q, id) ==
    /\ Free(q)
    /\ LET r == [IdleReq EXCEPT !.kind = "resend", !.rid = id]
       IN  req' = [req EXCEPT ![q] =
                IF id \in DOMAIN registrations
                THEN [r EXCEPT !.eid = registrations[id].eventId,
                               !.regStatus = registrations[id].webhookStatus,
                               !.pc = "getEvent"]
                ELSE NotFound(r, "Registration not found")]
    /\ UNCHANGED <<webhooks, events, registrations, nextId, sentBy, anonymousWrite, normalizer>>

\* storage.getEvent(registration.eventId): 404 when the event is gone,
\* otherwise the payload and the call of triggerWebhooks
ResendGetEvent(q) ==
    /\ Quiet
    /\ req[q].kind = "resend" /\ req[q].pc = "getEvent"
    /\ LET r == req[q]
       IN  req' = [req EXCEPT ![q] =
                IF r.eid \in DOMAIN events
                THEN [r EXCEPT !.etype = "registration.created",
                               !.payload = RegistrationPayload(r.rid, r.regStatus,
                                               events[r.eid].capacity, TRUE),
                               !.pc = "resolve"]
                ELSE NotFound(r, "Associated event not found")]
    /\ UNCHANGED <<webhooks, events, registrations, nextId, sentBy, anonymousWrite, normalizer>>

\* ------------------------------------------- POST /api/webhooks/trigger
\* the check of eventType: truthy and of the form lower.lower; membership
\* in the enumeration is not checked (`eventType as WebhookEvent`)
ValidEventType(eventType) == Truthy(eventType) /\ eventType \in LowerDotLower

\* the checks of eventType and data, then triggerWebhooks(eventType, ...)
\* whose lookup is the first await of the handler
PostWebhooksTrigger(q, eventType, data, dbOk) ==
    /\ Free(q)
    /\ LET r == [IdleReq EXCEPT !.kind = "trigger", !.etype = eventType, !.body = data]
       IN  req' = [req EXCEPT ![q] =
                IF ~ValidEventType(eventType) THEN Respond(r, 400, "Invalid event type")
                ELSE IF ~Truthy(data) \/ typeof(data) # "object"
                THEN Respond(r, 400, "Invalid payload data")
                ELSE triggerWebhooks([r EXCEPT !.payload = TriggerPayload(data)],
                                     webhooks, dbOk)]
    /\ UNCHANGED <<webhooks, events, registrations, nextId, sentBy, anonymousWrite, normalizer>>

\* ------------------------------------------------------- triggerWebhooks
\* storage.getWebhooksByEvent(eventType) answers (or throws) and the
\* deliveries are issued
Resolve(q, dbOk) ==
    /\ Quiet
    /\ req[q].kind \in DispatchKinds /\ req[q].pc = "resolve"
    /\ req' = [req EXCEPT ![q] = triggerWebhooks(req[q], webhooks, dbOk)]
    /\ UNCHANGED <<webhooks, events, registrations, nextId, sentBy, anonymousWrite, normalizer>>

\* the POST to webhook w settles; when it was the last one outstanding,
\* Promise.allSettled resolves, the aggregate is returned and the caller
\* continues
Settle(q, w, outcome) ==
    /\ Quiet
    /\ req[q].kind \in DispatchKinds /\ req[q].pc = "inflight"
    /\ w \in DOMAIN req[q].deliv /\ req[q].deliv[w].st = "pending"
    /\ LET r == req[q]
           deliv == [r.deliv EXCEPT ![w] = OnSettled(@, outcome)]
           r1 == [r EXCEPT !.deliv = deliv]
           r2 == IF AllSettled(deliv) THEN Return(r1, AggregateResult(deliv)) ELSE r1
       IN  /\ req' = [req EXCEPT ![q] = r2]
           /\ sentBy' = IF r2.returned /\ r2.success /\ r.kind \in RegistrationKinds
                        THEN [sentBy EXCEPT ![r.rid] = @ \cup {"dispatch"}]
                        ELSE sentBy
    /\ UNCHANGED <<webhooks, events, registrations, nextId, anonymousWrite, normalizer>>

\* storage.updateRegistration(id, {webhookStatus: "sent"}) answers (or
\* throws, dbOk = FALSE) and the request responds: 201 either way for a
\* creation, 200 or 500 for a manual re-send
StatusUpdate(q, dbOk) ==
    /\ Quiet
    /\ req[q].kind \in RegistrationKinds /\ req[q].pc = "update"
    /\ registrations' = IF dbOk
                        THEN updateRegistration(registrations, req[q].rid,
                                 [webhookStatus |-> TrackerPatch(req[q].success)])
                        ELSE registrations
    /\ LET r == [req[q] EXCEPT !.update = IF dbOk THEN "ok" ELSE "threw"]
       IN  req' = [req EXCEPT ![q] =
                IF r.kind = "createRegistration" THEN Respond(r, 201, "")
                ELSE IF dbOk THEN Respond(r, 200, "Webhook triggered successfully")
                ELSE Respond(r, 500, "Failed to trigger webhook")]
    /\ UNCHANGED <<webhooks, events, nextId, sentBy, anonymousWrite, normalizer>>

\* ---------------------------------------------- POST /api/webhooks/test
\* the checks, storage.getWebhook(webhookId), the payload and the single
\* signed POST to that webhook
PostWebhooksTest(q, id, eventType, data) ==
    /\ Free(q)
    /\ LET r == [IdleReq EXCEPT !.kind = "test", !.wid = id, !.etype = eventType,
                                !.body = data]
           payload == TestPayload(eventType, data)
       IN  req' = [req EXCEPT ![q] =
                IF ~Truthy(eventType) \/ ~Truthy(data)
                THEN Respond(r, 400, "Missing required fields: webhookId, eventType, data")
                ELSE IF id \notin DOMAIN webhooks THEN NotFound(r, "Webhook not found")
                ELSE IF ~Testable(webhooks[id])
                THEN Respond(r, 400, "Cannot test inactive webhook")
                ELSE [r EXCEPT !.payload = payload,
                               !.subs = (id :> webhooks[id]),
                               !.deliv = (id :> TestPost(webhooks[id], payload)),
                               !.pc = "inflight"]]
    /\ UNCHANGED <<webhooks, events, registrations, nextId, sentBy, anonymousWrite, normalizer>>

\* the test POST settles: a response of any status is reported with 200, a
\* network error with 400
TestSettle(q, outcome) ==
    /\ Quiet
    /\ req[q].kind = "test" /\ req[q].pc = "inflight"
    /\ LET r == req[q]
           r1 == [r EXCEPT !.deliv = [w \in DOMAIN r.deliv |-> OnSettled(r.deliv[w], outcome)],
                           !.success = (outcome = "ok")]
       IN  req' = [req EXCEPT ![q] =
                IF r1.deliv[r.wid].st = "pending" THEN r1
                ELSE IF outcome = "neterr" THEN Respond(r1, 400, "Failed to send webhook")
                ELSE Respond(r1, 200, "")]
    /\ UNCHANGED <<webhooks, events, registrations, nextId, sentBy, anonymousWrite, normalizer>>

\* ------------------------------------------------------ specifications
\* The dispatcher and the registry: the webhooks table under its CRUD
\* routes, dispatches started by POST /api/webhooks/trigger, and the
\* single-webhook test.
NextDispatch ==
    \/ \E session \in Sessions, body \in WebhookBodies : PostWebhooks(session, body)
    \/ \E session \in Sessions, id \in WebhookIds, patch \in WebhookPatches :
           PutWebhook(session, id, patch)
    \/ \E session \in Sessions, id \in WebhookIds : DeleteWebhook(session, id)
    \/ \E q \in Solo, eventType \in TriggerTypes, data \in DataBodies, dbOk \in BOOLEAN :
           PostWebhooksTrigger(q, eventType, data, dbOk)
    \/ \E q \in Solo, w \in WebhookIds, outcome \in Outcomes : Settle(q, w, outcome)
    \/ \E q \in Solo, id \in WebhookIds, data \in DataBodies :
           PostWebhooksTest(q, id, "registration.created", data)
    \/ \E q \in Solo, outcome \in Outcomes : TestSettle(q, outcome)
    \/ \E q \in Solo : Finish(q)

SpecDispatch == Init /\ [][NextDispatch]_vars

\* webhooks of the status tracker's runs: active subscribers of
\* registration.created
StatusWebhookBodies == { b \in WebhookBodies : "registration.created" \in b.events }

\* The status tracker: events and registrations under their routes, the
\* dispatches of registration creation and of the manual re-send, with
\* subscribers that are added while they run.  The registration routes
\* look at no session; these runs send their requests as the admin.
NextStatus ==
    \/ \E session \in Sessions, body \in StatusWebhookBodies : PostWebhooks(session, body)
    \/ \E session \in Sessions, id \in EventIds : DeleteEvent(session, id)
    \/ \E id \in StatusRegistrationIds, status \in BodyWebhookStatus :
           PutRegistration("admin", id, status)
    \/ \E id \in StatusRegistrationIds : DeleteRegistration("admin", id)
    \/ \E q \in Solo, session \in Sessions, capacity \in StatusCapacities :
           PostEvents(q, session, capacity)
    \/ \E q \in Solo, eventId \in EventIds, status \in BodyWebhookStatus :
           /\ nextId.registrations <= MaxStatusRegistrations
           /\ PostRegistrations(q, eventId, status)
    \/ \E q \in Solo : RegistrationCount(q)
    \/ \E q \in Solo : RegistrationInsert(q)
    \/ \E q \in Solo, dbOk \in BOOLEAN : RegistrationGetEvent(q, dbOk)
    \/ \E q \in Solo, id \in StatusRegistrationIds : PostRegistrationWebhook(q, id)
    \/ \E q \in Solo : ResendGetEvent(q)
    \/ \E q \in Solo, dbOk \in BOOLEAN : Resolve(q, dbOk)
    \/ \E q \in Solo, w \in WebhookIds, outcome \in Outcomes : Settle(q, w, outcome)
    \/ \E q \in Solo, dbOk \in BOOLEAN : StatusUpdate(q, dbOk)
    \/ \E q \in Solo : Finish(q)

SpecStatus == Init /\ [][NextStatus]_vars

\* Access to the registrations: the status tracker's runs, with the PUT,
\* PATCH and DELETE requests on a registration also sent without a session.
NextAccess ==
    \/ NextStatus
    \/ \E id \in StatusRegistrationIds, status \in BodyWebhookStatus :
           PutRegistration("none", id, status)
    \/ \E id \in StatusRegistrationIds : DeleteRegistration("none", id)

SpecAccess == Init /\ [][NextAccess]_vars

\* The records: events and registrations under their routes, with two
\* registration requests in flight at once and one subscriber of
\* registration.created.
NextRecords ==
    \/ \E body \in StatusWebhookBodies :
           /\ nextId.webhooks <= MaxRecordWebhooks
           /\ PostWebhooks("admin", body)
    \/ \E id \in EventIds : DeleteEvent("admin", id)
    \/ \E q \in Reqs, capacity \in RecordCapacities : PostEvents(q, "admin", capacity)
    \/ \E q \in Reqs, eventId \in EventIds : PostRegistrations(q, eventId, NULL)
    \/ \E q \in Reqs : RegistrationCount(q)
    \/ \E q \in Reqs : RegistrationInsert(q)
    \/ \E q \in Reqs, dbOk \in BOOLEAN : RegistrationGetEvent(q, dbOk)
    \/ \E q \in Reqs, dbOk \in BOOLEAN : Resolve(q, dbOk)
    \/ \E q \in Reqs, w \in WebhookIds, outcome \in Outcomes : Settle(q, w, outcome)
    \/ \E q \in Reqs, dbOk \in BOOLEAN : StatusUpdate(q, dbOk)
    \/ \E q \in Reqs : Finish(q)

SpecRecords == Init /\ [][NextRecords]_vars

\* The events: the three routes that create or update an event, with
\* subscribers of event.created and event.updated.
NextEvents ==
    \/ \E session \in Sessions, body \in EventWebhookBodies : PostWebhooks(session, body)
    \/ \E session \in Sessions, id \in WebhookIds, patch \in WebhookPatches :
           PutWebhook(session, id, patch)
    \/ \E session \in Sessions, id \in EventIds : DeleteEvent(session, id)
    \/ \E q \in Solo, session \in Sessions, capacity \in RecordCapacities :
           PostEvents(q, session, capacity)
    \/ \E q \in Solo, session \in Sessions, id \in EventIds, capacity \in PutCapacities :
           PutEvents(q, session, id, capacity)
    \/ \E q \in Solo, capacity \in ExternalCapacities : PostZapierEvents(q, capacity)
    \/ \E q \in Solo, dbOk \in BOOLEAN : Resolve(q, dbOk)
    \/ \E q \in Solo, w \in WebhookIds, outcome \in Outcomes : Settle(q, w, outcome)
    \/ \E q \in Solo : Finish(q)

SpecEvents == Init /\ [][NextEvents]_vars

\* The probes: the single-webhook test and the requests that name a
\* record, with events, registrations and webhooks stored and removed
\* while they run.
DeactivatingPatches == { p \in WebhookPatches : "active" \in p.keys }

NextProbe ==
    \/ \E body \in WebhookBodies : PostWebhooks("admin", body)
    \/ \E id \in WebhookIds, patch \in DeactivatingPatches :
           PutWebhook("admin", id, patch)
    \/ \E id \in EventIds : DeleteEvent("admin", id)
    \/ \E q \in Solo, capacity \in ExternalCapacities : PostZapierEvents(q, capacity)
    \/ \E q \in Solo, eventId \in EventIds :
           /\ nextId.registrations <= MaxStatusRegistrations
           /\ PostRegistrations(q, eventId, NULL)
    \/ \E q \in Solo : RegistrationCount(q)
    \/ \E q \in Solo : RegistrationInsert(q)
    \/ \E q \in Solo : RegistrationGetEvent(q, TRUE)
    \/ \E q \in Solo, id \in RegistrationIds : PostRegistrationWebhook(q, id)
    \/ \E q \in Solo : ResendGetEvent(q)
    \/ \E q \in Solo : Resolve(q, TRUE)
    \/ \E q \in Solo, w \in WebhookIds, outcome \in Outcomes : Settle(q, w, outcome)
    \/ \E q \in Solo : StatusUpdate(q, TRUE)
    \/ \E q \in Solo, id \in WebhookIds, eventType \in {"registration.created", ""} :
           PostWebhooksTest(q, id, eventType, "{}")
    \/ \E q \in Solo, outcome \in Outcomes : TestSettle(q, outcome)
    \/ \E q \in Solo : Finish(q)

SpecProbe == Init /\ [][NextProbe]_vars

\* Validation: registration creation and the trigger route with bodies
\* that pass and bodies that fail their checks, with subscribers stored.
NextValidate ==
    \/ \E body \in WebhookBodies : PostWebhooks("admin", body)
    \/ \E q \in Solo, capacity \in ExternalCapacities : PostZapierEvents(q, capacity)
    \/ \E q \in Solo, eventId \in EventIds, status \in RegistrationBodyStatus :
           PostRegistrations(q, eventId, status)
    \/ \E q \in Solo : RegistrationCount(q)
    \/ \E q \in Solo : RegistrationInsert(q)
    \/ \E q \in Solo : RegistrationGetEvent(q, TRUE)
    \/ \E q \in Solo, eventType \in TriggerTypes, data \in TriggerData :
           PostWebhooksTrigger(q, eventType, data, TRUE)
    \/ \E q \in Solo : Resolve(q, TRUE)
    \/ \E q \in Solo, w \in WebhookIds, outcome \in Outcomes : Settle(q, w, outcome)
    \/ \E q \in Solo : StatusUpdate(q, TRUE)
    \/ \E q \in Solo : Finish(q)

SpecValidate == Init /\ [][NextValidate]_vars

\* no request is in flight: the next request starts after the last one has
\* responded and its handler has returned
Idle == \A q \in Reqs : req[q].pc = "idle"

\* One request at a time: the routes that create, update and delete events
\* and registrations, each request run to its response before the next one
\* arrives, with one subscriber of registration.created.
NextSerial ==
    \/ \E body \in StatusWebhookBodies :
           /\ Idle /\ nextId.webhooks <= MaxRecordWebhooks
           /\ PostWebhooks("admin", body)
    \/ \E id \in EventIds : Idle /\ DeleteEvent("admin", id)
    \/ \E id \in RegistrationIds, status \in {NULL, "sent"} :
           Idle /\ PutRegistration("admin", id, status)
    \/ \E id \in RegistrationIds : Idle /\ DeleteRegistration("admin", id)
    \/ \E q \in Solo, capacity \in RecordCapacities : PostEvents(q, "admin", capacity)
    \/ \E q \in Solo, id \in EventIds, capacity \in PutCapacities :
           PutEvents(q, "admin", id, capacity)
    \/ \E q \in Solo, eventId \in EventIds : PostRegistrations(q, eventId, NULL)
    \/ \E q \in Solo : RegistrationCount(q)
    \/ \E q \in Solo : RegistrationInsert(q)
    \/ \E q \in Solo : RegistrationGetEvent(q, TRUE)
    \/ \E q \in Solo : Resolve(q, TRUE)
    \/ \E q \in Solo, w \in WebhookIds, outcome \in Outcomes : Settle(q, w, outcome)
    \/ \E q \in Solo : StatusUpdate(q, TRUE)
    \/ \E q \in Solo : Finish(q)

SpecSerial == Init /\ [][NextSerial]_vars

\* Progress: the four kinds of request that dispatch, one at a time, with
\* subscribers added while they run.  Every awaited call
\* comes back: a storage call answers or throws, and an outbound POST
\* settles with a 2xx, a non-2xx or a network error; the event loop then
\* runs the slice that was waiting for it.
NextLive ==
    \/ \E body \in WebhookBodies : PostWebhooks("admin", body)
    \/ \E q \in Solo, capacity \in StatusCapacities : PostEvents(q, "admin", capacity)
    \/ \E q \in Solo, eventId \in EventIds :
           /\ nextId.registrations <= MaxStatusRegistrations
           /\ PostRegistrations(q, eventId, NULL)
    \/ \E q \in Solo : RegistrationCount(q)
    \/ \E q \in Solo : RegistrationInsert(q)
    \/ \E q \in Solo, dbOk \in BOOLEAN : RegistrationGetEvent(q, dbOk)
    \/ \E q \in Solo, id \in StatusRegistrationIds : PostRegistrationWebhook(q, id)
    \/ \E q \in Solo : ResendGetEvent(q)
    \/ \E q \in Solo, dbOk \in BOOLEAN :
           PostWebhooksTrigger(q, "registration.created", "{}", dbOk)
    \/ \E q \in Solo, dbOk \in BOOLEAN : Resolve(q, dbOk)
    \/ \E q \in Solo, w \in WebhookIds, outcome \in Outcomes : Settle(q, w, outcome)
    \/ \E q \in Solo, dbOk \in BOOLEAN : StatusUpdate(q, dbOk)
    \/ \E q \in Solo : Finish(q)

\* every awaited storage call and every outbound POST comes back
Fairness ==
    \A q \in Solo :
        /\ WF_vars(RegistrationCount(q))
        /\ WF_vars(RegistrationInsert(q))
        /\ WF_vars(\E dbOk \in BOOLEAN : RegistrationGetEvent(q, dbOk))
        /\ WF_vars(ResendGetEvent(q))
        /\ WF_vars(\E dbOk \in BOOLEAN : Resolve(q, dbOk))
        /\ WF_vars(\E w \in WebhookIds, outcome \in Outcomes : Settle(q, w, outcome))
        /\ WF_vars(\E dbOk \in BOOLEAN : StatusUpdate(q, dbOk))

SpecLive == Init /\ [][NextLive]_vars /\ Fairness

\* ------------------------------------------------------- the normalizer
\* The payload is built twice for one stored pair: by the same route or by
\* the two routes, at the same instant or at different ones.
\* POST /api/registrations builds the payload for the stored registration
\* and the event it has read
BuildAtCreation ==
    /\ Len(normalizer.built) < 2
    /\ normalizer' = [normalizer EXCEPT !.built =
            Append(@, [route |-> "creation", at |-> "",
                       result |-> CreationPayload(normalizer.registration,
                                                  normalizer.event)])]
    /\ UNCHANGED <<webhooks, events, registrations, nextId, req, sentBy, anonymousWrite>>

\* POST /api/registrations/:id/webhook builds the payload at the instant now
BuildAtResend(now) ==
    /\ Len(normalizer.built) < 2
    /\ normalizer' = [normalizer EXCEPT !.built =
            Append(@, [route |-> "resend", at |-> now,
                       result |-> ResendPayload(normalizer.registration,
                                                normalizer.event, now)])]
    /\ UNCHANGED <<webhooks, events, registrations, nextId, req, sentBy, anonymousWrite>>

\* The normalizer: a stored registration and the event read for it, drawn
\* from the inputs, and the payloads the two routes build for them.
InitPayload ==
    /\ webhooks = <<>>
    /\ events = <<>>
    /\ registrations = <<>>
    /\ nextId = [webhooks |-> 1, events |-> 1, registrations |-> 1]
    /\ req = [q \in Reqs |-> IdleReq]
    /\ sentBy = [r \in RegistrationIds |-> {}]
    /\ anonymousWrite = FALSE
    /\ \E registration \in PayloadRegistrations, event \in PayloadEvents :
           normalizer = [registration |-> registration, event |-> event, built |-> <<>>]

NextPayload ==
    \/ BuildAtCreation
    \/ \E now \in Instants : BuildAtResend(now)

SpecPayload == InitPayload /\ [][NextPayload]_vars

TypeOK ==
    /\ DOMAIN webhooks \subseteq WebhookIds
    /\ DOMAIN events \subseteq EventIds
    /\ DOMAIN registrations \subseteq RegistrationIds
    /\ \A q \in Reqs : req[q].pc \in {"idle", "count", "insert", "getEvent", "resolve",
                                       "inflight", "update", "done"}

\* ----------------------------------------------------------------- claims
\* the deliveries of slot q that ended with a 2xx response
Delivered(q) == { w \in DOMAIN req[q].deliv : req[q].deliv[w].st = "ok" }

\* slot q holds a dispatch whose subscriber list has been resolved
Resolved(q) == req[q].kind \in DispatchKinds /\ req[q].lookup = "ok"

\* C1: the slice of a dispatch for event type T that resolves the
\* subscriber list issues a POST to exactly the stored webhooks that are
\* active and subscribed to T in the table as it is at that slice, and the
\* set of webhooks that were sent a POST never changes afterwards.
C1_ExactSubscribers ==
    [][\A q \in Reqs :
          /\ (req[q].lookup = "none" /\ req'[q].lookup = "ok"
              /\ req'[q].kind \in DispatchKinds)
                => DOMAIN req'[q].deliv =
                     { w \in DOMAIN webhooks :
                         webhooks[w].active /\ req'[q].etype \in webhooks[w].events }
          /\ (Resolved(q) /\ req'[q].lookup = "ok")
                => DOMAIN req'[q].deliv = DOMAIN req[q].deliv]_vars

\* C1 witness: a registration.created dispatch has posted to a subscriber
\* while a stored webhook that is inactive or subscribed only to other
\* types got nothing.
C1_Witness ==
    \E q \in Reqs :
        /\ Resolved(q) /\ req[q].etype = "registration.created"
        /\ DOMAIN req[q].deliv # {}
        /\ \E w \in DOMAIN webhooks \ DOMAIN req[q].deliv :
               ~webhooks[w].active \/ webhooks[w].events = {"event.created"}

\* C2: once triggerWebhooks has returned, its result is true exactly when
\* at least one of the deliveries got a 2xx response.
C2_AtLeastOne ==
    \A q \in Reqs :
        (req[q].kind \in DispatchKinds /\ req[q].returned)
            => (req[q].success <=> Delivered(q) # {})

\* C2 witness: two deliveries, exactly one of them succeeded, and the
\* dispatch returned true.
C2_Witness ==
    \E q \in Reqs :
        /\ req[q].kind \in DispatchKinds /\ req[q].returned /\ req[q].success
        /\ Cardinality(DOMAIN req[q].deliv) = 2
        /\ Cardinality(Delivered(q)) = 1

\* C3 as stated: a registration-linked request whose dispatch reported
\* success has responded only with the stored webhookStatus "sent".
C3_SentAtResponse ==
    \A q \in Reqs :
        (/\ req[q].kind \in RegistrationKinds /\ req[q].pc = "done"
         /\ req[q].returned /\ req[q].success
         /\ req[q].rid \in DOMAIN registrations)
            => registrations[req[q].rid].webhookStatus = "sent"

\* C3 amended: a registration-linked request whose dispatch reported
\* success has responded with the stored webhookStatus "sent", unless the
\* status update itself threw (the registration being still stored).
C3_SentUnlessUpdateThrew ==
    \A q \in Reqs :
        (/\ req[q].kind \in RegistrationKinds /\ req[q].pc = "done"
         /\ req[q].returned /\ req[q].success
         /\ req[q].update # "threw"
         /\ req[q].rid \in DOMAIN registrations)
            => registrations[req[q].rid].webhookStatus = "sent"

\* C3 witness: a creation whose body carried no webhookStatus has
\* responded after one of two deliveries succeeded, and the row says "sent".
C3_Witness ==
    \E q \in Reqs :
        /\ req[q].kind = "createRegistration" /\ req[q].pc = "done"
        /\ req[q].body = NULL /\ req[q].update = "ok"
        /\ Cardinality(DOMAIN req[q].deliv) = 2 /\ Cardinality(Delivered(q)) = 1
        /\ req[q].rid \in DOMAIN registrations
        /\ registrations[req[q].rid].webhookStatus = "sent"

\* C4: no slice of a registration-linked request that runs its dispatch
\* (the lookup, a delivery settling), and no slice at or after the return
\* of a dispatch that reported no success, changes the registrations table:
\* the stored webhookStatus is what it was before the dispatch.
C4_FailureLeavesStatus ==
    [][\A q \in Reqs :
          (/\ req'[q] # req[q]
           /\ \/ req[q].kind \in RegistrationKinds
                    /\ req[q].pc \in {"resolve", "inflight"}
              \/ req'[q].kind \in RegistrationKinds
                    /\ req'[q].returned /\ ~req'[q].success)
              => registrations' = registrations]_vars

\* C4 witness: a creation has responded after every delivery failed and
\* the row still says "not_sent".
C4_Witness ==
    \E q \in Reqs :
        /\ req[q].kind = "createRegistration" /\ req[q].pc = "done"
        /\ req[q].returned /\ ~req[q].success
        /\ DOMAIN req[q].deliv # {}
        /\ req[q].rid \in DOMAIN registrations
        /\ registrations[req[q].rid].webhookStatus = "not_sent"

C6_SentStaysSent ==
    [][\A q \in Reqs :
          ((req[q].kind \in RegistrationKinds \/ req'[q].kind \in RegistrationKinds)
           /\ req'[q] # req[q])
              => \A r \in DOMAIN registrations :
                     registrations[r].webhookStatus = "sent"
                         => (r \in DOMAIN registrations'
                             /\ registrations'[r].webhookStatus = "sent")]_vars

\* C6 witness: a manual re-send of a registration that said "sent" has
\* responded after every delivery failed, and the row still says "sent".
C6_Witness ==
    \E q \in Reqs :
        /\ req[q].kind = "resend" /\ req[q].pc = "done"
        /\ req[q].regStatus = "sent"
        /\ req[q].returned /\ ~req[q].success /\ DOMAIN req[q].deliv # {}
        /\ req[q].rid \in DOMAIN registrations
        /\ registrations[req[q].rid].webhookStatus = "sent"

\* C7: in a dispatch every resolved subscriber has been sent exactly one
\* POST, at every moment from the fan-out on and whatever the other
\* deliveries did.
C7_OnePostEach ==
    \A q \in Reqs :
        Resolved(q) =>
            /\ DOMAIN req[q].deliv = DOMAIN req[q].subs
            /\ \A w \in DOMAIN req[q].deliv : req[q].deliv[w].attempts = 1

\* C7 witness: a dispatch to two subscribers has returned, one delivery
\* ended with a non-2xx status, the other with a network error.
C7_Witness ==
    \E q \in Reqs :
        /\ Resolved(q) /\ req[q].returned
        /\ \E v, w \in DOMAIN req[q].deliv :
               req[q].deliv[v].st = "non2xx" /\ req[q].deliv[w].st = "neterr"

\* C8: a dispatch that has returned its result, or whose request has
\* responded, has no delivery outstanding.
C8_ResultAfterAllSettled ==
    \A q \in Reqs :
        (req[q].kind \in DispatchKinds /\ (req[q].returned \/ req[q].pc = "done"))
            => \A w \in DOMAIN req[q].deliv : req[q].deliv[w].st # "pending"

\* C8 witness: a dispatch to two subscribers has returned.
C8_Witness ==
    \E q \in Reqs :
        /\ Resolved(q) /\ req[q].returned
        /\ Cardinality(DOMAIN req[q].deliv) = 2

\* C9: when no stored webhook is active and subscribed to the event type
\* at the slice that looks the subscribers up, the dispatch sends nothing
\* and returns false in that slice, and POST /api/webhooks/trigger answers
\* 200 "No webhooks were triggered".
C9_NoSubscriberNotTriggered ==
    [][\A q \in Reqs :
          (/\ req[q].lookup = "none" /\ req'[q].lookup # "none"
           /\ req'[q].kind \in DispatchKinds
           /\ ~\E w \in DOMAIN webhooks :
                  webhooks[w].active /\ req'[q].etype \in webhooks[w].events)
              => /\ DOMAIN req'[q].deliv = {}
                 /\ req'[q].returned /\ ~req'[q].success
                 /\ req'[q].kind = "trigger"
                      => (/\ req'[q].pc = "done" /\ req'[q].code = 200
                          /\ req'[q].message = "No webhooks were triggered")]_vars

\* C9 witness: a trigger request has answered "No webhooks were triggered"
\* with webhooks stored, none of them an active subscriber of its type.
C9_Witness ==
    \E q \in Reqs :
        /\ req[q].kind = "trigger" /\ req[q].pc = "done" /\ req[q].lookup = "ok"
        /\ DOMAIN req[q].deliv = {} /\ ~req[q].success
        /\ DOMAIN webhooks # {}
        /\ req[q].message = "No webhooks were triggered"

\* C10: every POST (fan-out and test) carries X-Webhook-Signature exactly
\* when the secret of its webhook, as read for that request, is neither
\* null nor empty, and the header is then the HMAC-SHA256 of the body that
\* is sent, keyed by that secret.
C10_SignatureIffSecret ==
    \A q \in Reqs : \A w \in DOMAIN req[q].deliv :
        LET d == req[q].deliv[w]
            secret == req[q].subs[w].secret
        IN  /\ (d.signature # NoSignature) <=> (secret # NULL /\ secret # "")
            /\ d.signature # NoSignature => d.signature = HmacSha256Hex(secret, d.body)

\* C10 witness: one dispatch has sent a signed POST to a webhook with a
\* secret and an unsigned one to a webhook whose stored secret is the empty
\* string.
C10_Witness ==
    \E q \in Reqs : \E v, w \in DOMAIN req[q].deliv :
        /\ req[q].deliv[v].signature # NoSignature
        /\ req[q].subs[w].secret = ""
        /\ req[q].deliv[w].signature = NoSignature

\* C11: when the count the handler of POST /api/registrations reads is
\* equal to or above the capacity it read from the event, the request
\* answers 400 "Event is at full capacity" in that slice and stores
\* nothing; a request that answered so has stored no registration, looked
\* no subscriber up and sent no POST.
C11_FullCapacityRejected ==
    [][\A q \in Reqs :
          /\ (/\ req[q].kind = "createRegistration" /\ req[q].pc = "count"
              /\ req'[q] # req[q]
              /\ getEventRegistrationCount(registrations, req[q].eid) >= req[q].capacity)
                => /\ req'[q].pc = "done" /\ req'[q].code = 400
                   /\ req'[q].message = "Event is at full capacity"
                   /\ registrations' = registrations
          /\ req'[q].message = "Event is at full capacity"
                => /\ req'[q].rid = 0 /\ req'[q].lookup = "none"
                   /\ req'[q].deliv = <<>>]_vars

\* C11 witness: an event of capacity 1 holds one registration, an active
\* subscriber of registration.created is stored, and a further request was
\* answered "Event is at full capacity".
C11_Witness ==
    \E q \in Reqs :
        /\ req[q].kind = "createRegistration" /\ req[q].pc = "done"
        /\ req[q].message = "Event is at full capacity"
        /\ req[q].eid \in DOMAIN events /\ events[req[q].eid].capacity = 1
        /\ getEventRegistrationCount(registrations, req[q].eid) = 1
        /\ getWebhooksByEvent(webhooks, "registration.created") # {}

\* C12: the insert slice of POST /api/registrations stores the
\* registration whatever the event's count has become since the check, so
\* that two interleaved requests that both read a count below the capacity
\* both insert (the witness: more registrations than the capacity).
C12_InsertWithoutRecheck ==
    [][\A q \in Reqs :
          (/\ req[q].kind = "createRegistration" /\ req[q].pc = "insert"
           /\ req'[q] # req[q])
              => /\ DOMAIN registrations' = DOMAIN registrations \cup {nextId.registrations}
                 /\ nextId.registrations \notin DOMAIN registrations
                 /\ registrations'[nextId.registrations].eventId = req[q].eid]_vars

\* C12 witness: a stored event of capacity 1 has two stored registrations.
C12_Witness ==
    \E e \in DOMAIN events :
        /\ events[e].capacity = 1
        /\ getEventRegistrationCount(registrations, e) > events[e].capacity

\* C13 as stated: a creation request that has stored its registration, and
\* an event creation that has stored its event, respond with 201 only.
C13_CreatedResponds201 ==
    \A q \in Reqs :
        /\ (req[q].kind = "createRegistration" /\ req[q].pc = "done" /\ req[q].rid # 0)
              => req[q].code = 201
        /\ (req[q].kind = "createEvent" /\ req[q].pc = "done" /\ req[q].eid # 0)
              => req[q].code = 201

\* C13 witness of the divergence: a creation request has answered 500 and
\* the registration it stored is still in the table.
C13_Witness ==
    \E q \in Reqs :
        /\ req[q].kind = "createRegistration" /\ req[q].pc = "done"
        /\ req[q].code = 500 /\ req[q].rid \in DOMAIN registrations

\* the requests that create or update an event
EventKinds == {"createEvent", "updateEvent", "externalEvent"}

\* C14 as stated: a request that has created or updated an event responds
\* only after a dispatch of event.created, respectively event.updated, has
\* resolved the subscribers of that type and posted to each of them.
C14_EventDispatched ==
    \A q \in Reqs :
        (/\ req[q].kind \in EventKinds /\ req[q].pc = "done"
         /\ req[q].code \in {200, 201})
            => /\ req[q].lookup # "none"
               /\ req[q].etype = IF req[q].kind = "updateEvent"
                                  THEN "event.updated" ELSE "event.created"
               /\ DOMAIN req[q].deliv = DOMAIN req[q].subs

\* C14 witness of the divergence: an update of an event has answered 200
\* while an active subscriber of event.updated is stored, and no subscriber
\* was looked up and nothing was posted.
C14_Witness ==
    \E q \in Reqs :
        /\ req[q].kind = "updateEvent" /\ req[q].pc = "done" /\ req[q].code = 200
        /\ getWebhooksByEvent(webhooks, "event.updated") # {}
        /\ req[q].lookup = "none" /\ req[q].deliv = <<>>

\* C15 as stated: every stored event has capacity >= 1.
C15_CapacityAtLeastOne ==
    \A e \in DOMAIN events : events[e].capacity >= 1

\* C15 witness of the divergence: an admin's PUT /api/events/:id has
\* answered 200 and the event it named is stored with capacity 0.
C15_Witness ==
    \E q \in Reqs :
        /\ req[q].kind = "updateEvent" /\ req[q].pc = "done" /\ req[q].code = 200
        /\ req[q].eid \in DOMAIN events /\ events[req[q].eid].capacity = 0

\* C16 as stated: every stored registration's eventId names a stored event.
C16_EventExists ==
    \A r \in DOMAIN registrations : registrations[r].eventId \in DOMAIN events

\* C16 witness of the divergence: a registration is stored for an event
\* that was created and has been deleted since, and no request is in flight.
C16_Witness ==
    /\ \A q \in Reqs : req[q].pc = "idle"
    /\ \E r \in DOMAIN registrations :
           /\ registrations[r].eventId \notin DOMAIN events
           /\ registrations[r].eventId < nextId.events

\* C17 as stated: no request without a session has changed or deleted a
\* stored registration (the status tracker's own update is no such request).
C17_OnlyAdminOrTracker == ~anonymousWrite

\* C17 witness of the divergence: the one registration that was created
\* has been deleted after a request without a session changed or deleted a
\* stored registration.
C17_Witness ==
    /\ anonymousWrite
    /\ nextId.registrations = 2 /\ registrations = <<>>
    /\ \A q \in Reqs : req[q].pc = "idle"

\* C18: a POST /api/webhooks/trigger request with a well-formed body (an
\* event type of the form lower.lower and a data object) has responded with
\* 200 only; its message is "Webhook triggered successfully" exactly when
\* at least one delivery got a 2xx response, and "No webhooks were
\* triggered" otherwise.
C18_TriggerAlways200 ==
    \A q \in Reqs :
        (/\ req[q].kind = "trigger" /\ req[q].pc = "done"
         /\ ValidEventType(req[q].etype) /\ Truthy(req[q].body))
            => /\ req[q].code = 200
               /\ req[q].message = IF Delivered(q) # {}
                                    THEN "Webhook triggered successfully"
                                    ELSE "No webhooks were triggered"

\* C18 witness: a trigger request whose two deliveries both failed has
\* answered 200 "No webhooks were triggered".
C18_Witness ==
    \E q \in Reqs :
        /\ req[q].kind = "trigger" /\ req[q].pc = "done" /\ req[q].code = 200
        /\ req[q].message = "No webhooks were triggered"
        /\ Cardinality(DOMAIN req[q].deliv) = 2 /\ Delivered(q) = {}

\* the body of a POST /api/webhooks/test request passes the check of its
\* required fields
TestBodyOk(r) == Truthy(r.etype) /\ Truthy(r.body)

\* C19: a POST /api/webhooks/test request with the required fields, for a
\* stored webhook, at its arrival sends exactly one POST, to that webhook
\* and its URL, when the webhook is active (subscribed to the event type or
\* not), and sends nothing and answers 400 when it is inactive; no later
\* slice of the request sends anything more, and no slice of it changes a
\* registration.
C19_TestOnePost ==
    [][\A q \in Reqs :
          (req'[q].kind = "test" /\ req'[q] # req[q])
              => /\ registrations' = registrations
                 /\ (req[q].pc = "idle" /\ TestBodyOk(req'[q])
                      /\ req'[q].wid \in DOMAIN webhooks)
                       => IF webhooks[req'[q].wid].active
                          THEN /\ DOMAIN req'[q].deliv = {req'[q].wid}
                               /\ req'[q].deliv[req'[q].wid].url
                                      = webhooks[req'[q].wid].url
                               /\ req'[q].deliv[req'[q].wid].attempts = 1
                          ELSE /\ req'[q].deliv = <<>>
                               /\ req'[q].pc = "done" /\ req'[q].code = 400
                 /\ req[q].pc # "idle"
                       => /\ DOMAIN req'[q].deliv = DOMAIN req[q].deliv
                          /\ \A w \in DOMAIN req[q].deliv :
                                 req'[q].deliv[w].attempts = req[q].deliv[w].attempts]_vars

\* C19 witness: a test of an active webhook that is not subscribed to the
\* given event type has been answered after its one POST, with another
\* webhook, subscribed to that type, and a registration stored.
C19_Witness ==
    \E q \in Reqs :
        /\ req[q].kind = "test" /\ req[q].pc = "done" /\ req[q].code = 200
        /\ DOMAIN req[q].deliv = {req[q].wid}
        /\ req[q].etype \notin req[q].subs[req[q].wid].events
        /\ getWebhooksByEvent(webhooks, req[q].etype) \ {req[q].wid} # {}
        /\ registrations # <<>>

\* the request arriving in slot q names a record that is not stored: the
\* event of a registration body, the registration of a manual re-send, the
\* webhook of a test whose body has the required fields
NamesUnknown(q) ==
    /\ req[q].pc = "idle"
    /\ \/ req'[q].kind = "createRegistration" /\ req'[q].eid \notin DOMAIN events
       \/ req'[q].kind = "resend" /\ req'[q].rid \notin DOMAIN registrations
       \/ req'[q].kind = "test" /\ TestBodyOk(req'[q])
             /\ req'[q].wid \notin DOMAIN webhooks

\* C20: a request that names an unknown event (POST /api/registrations),
\* registration (POST /api/registrations/:id/webhook) or webhook (POST
\* /api/webhooks/test) answers 404 at once; and the slice in which a
\* request answers 404 stores, changes and deletes nothing, and the request
\* has looked no subscriber up and sent no POST.
C20_UnknownIdNoEffect ==
    [][\A q \in Reqs :
          /\ NamesUnknown(q) => (req'[q].pc = "done" /\ req'[q].code = 404)
          /\ (req'[q] # req[q] /\ req'[q].pc = "done" /\ req'[q].code = 404)
                => /\ UNCHANGED <<webhooks, events, registrations, nextId>>
                   /\ req'[q].deliv = <<>> /\ req'[q].lookup = "none"
                   /\ req'[q].kind = "createRegistration" => req'[q].rid = 0]_vars

\* C20 witness: with a webhook, an event and a registration stored, a
\* manual re-send that named another registration has answered 404.
C20_Witness ==
    \E q \in Reqs :
        /\ req[q].kind = "resend" /\ req[q].pc = "done" /\ req[q].code = 404
        /\ req[q].rid \notin DOMAIN registrations
        /\ webhooks # <<>> /\ events # <<>> /\ registrations # <<>>

Construction(i) == normalizer.built[i]
formData == normalizer.registration.formData

\* C22 as stated: two constructions by the same route for the same stored
\* registration and event give identical payloads.
C22_SamePayloadTwice ==
    \A i, j \in DOMAIN normalizer.built :
        Construction(i).route = Construction(j).route
            => Construction(i).result = Construction(j).result

\* C22 witness of the divergence: two re-sends of one unchanged registration
\* at different instants have built payloads that differ.
C22_Witness ==
    \E i, j \in DOMAIN normalizer.built :
        /\ Construction(i).route = "resend" /\ Construction(j).route = "resend"
        /\ Construction(i).at # Construction(j).at
        /\ Construction(i).result.outcome = "built"
        /\ Construction(j).result.outcome = "built"
        /\ Construction(i).result.payload # Construction(j).result.payload

\* C23 as stated: with the event record absent, either route still builds a
\* payload, with the empty string under the six textual event keys and 0
\* under event_capacity.
C23_AbsentEventDefaults ==
    \A i \in DOMAIN normalizer.built :
        ~normalizer.event.present
            => /\ Construction(i).result.outcome = "built"
               /\ \A k \in {"event_title", "event_description", "event_date",
                             "event_location", "event_start_time", "event_end_time"} :
                      Construction(i).result.payload[k] = Str("")
               /\ Construction(i).result.payload["event_capacity"] = Num("0")

\* C23 witness of the divergence: a re-send for a registration whose event
\* is gone has built no payload (the route answers 404), and the creation
\* route has built one whose event_title is not the empty string.
C23_Witness ==
    /\ ~normalizer.event.present
    /\ \E i, j \in DOMAIN normalizer.built :
           /\ Construction(i).route = "resend"
           /\ Construction(i).result.outcome = "404"
           /\ Construction(j).route = "creation"
           /\ Construction(j).result.outcome = "built"
           /\ Construction(j).result.payload["event_title"] = Str("Unknown Event")

\* C24 as stated: every payload built holds, for every entry (k, v) of
\* formData, the value v under the key form_<k>.
C24_FormCopyOfEveryField ==
    \A i \in DOMAIN normalizer.built :
        Construction(i).result.outcome = "built"
            => \A k \in DOMAIN formData :
                  /\ ("form_" \o k) \in DOMAIN Construction(i).result.payload
                  /\ Construction(i).result.payload["form_" \o k] = formData[k]

\* C24 witness of the divergence: a re-send has built a payload for a
\* registration with form fields, and the payload has no form_<k> key.
C24_Witness ==
    \E i \in DOMAIN normalizer.built :
        /\ Construction(i).route = "resend"
        /\ Construction(i).result.outcome = "built"
        /\ formData # <<>>
        /\ \A k \in DOMAIN formData :
               ("form_" \o k) \notin DOMAIN Construction(i).result.payload

\* the payload holds String(value) under the top-level key
Holds(payload, key, value) == key \in DOMAIN payload /\ payload[key] = String(value)

\* C25 as stated: every payload built has email = String(v) for a form key
\* that contains "email", first_name for one that contains "first" or
\* "fname", last_name for one that contains "last" or "lname".
C25_FieldsBySubstring ==
    \A i \in DOMAIN normalizer.built :
        Construction(i).result.outcome = "built"
            => \A k \in DOMAIN formData :
                  LET keyLower == toLowerCase(k)
                      payload == Construction(i).result.payload
                  IN  /\ includes(keyLower, "email")
                         => Holds(payload, "email", formData[k])
                      /\ (includes(keyLower, "first") \/ includes(keyLower, "fname"))
                         => Holds(payload, "first_name", formData[k])
                      /\ (includes(keyLower, "last") \/ includes(keyLower, "lname"))
                         => Holds(payload, "last_name", formData[k])

\* C25 witness of the divergence: a re-send has built a payload for a
\* registration whose only form key is "Email Address", and the payload
\* has no email key.
C25_Witness ==
    \E i \in DOMAIN normalizer.built :
        /\ Construction(i).route = "resend"
        /\ Construction(i).result.outcome = "built"
        /\ DOMAIN formData = {"Email Address"}
        /\ "email" \notin DOMAIN Construction(i).result.payload

\* a field id with its dashes removed
RECURSIVE Undash(_)
Undash(id) ==
    IF id = "" THEN ""
    ELSE (IF Ch(id, 1) = "-" THEN "" ELSE Ch(id, 1)) \o Undash(SubSeq(id, 2, Len(id)))

\* the keys that carry the label: the id in dashed and in dash-free form
KeysOf(label) ==
    UNION { {id, Undash(id)} : id \in { d \in DOMAIN FORM_FIELD_LABELS :
                                           FORM_FIELD_LABELS[d] = label } }
TableKeys == UNION { {id, Undash(id)} : id \in DOMAIN FORM_FIELD_LABELS }

\* the label the table gives for one of its keys
TableLabel(key) ==
    FORM_FIELD_LABELS[CHOOSE id \in DOMAIN FORM_FIELD_LABELS : key \in {id, Undash(id)}]

\* C26: for a formData keyed by field ids of the label table, in dashed or
\* dash-free form, every payload built (at creation, and on re-send when
\* the event exists) has first_name = String(f) for the value f under the
\* First Name id and email = String(e) for the value e under the Email id.
C26_KnownIdsFillNameAndEmail ==
    \A i \in DOMAIN normalizer.built :
        (DOMAIN formData \subseteq TableKeys /\ Construction(i).result.outcome # "404")
            => /\ Construction(i).result.outcome = "built"
               /\ \A k \in DOMAIN formData :
                      LET payload == Construction(i).result.payload
                          same == \A k2 \in DOMAIN formData :
                                      TableLabel(k2) = TableLabel(k)
                                          => formData[k2] = formData[k]
                      IN  /\ (k \in KeysOf("First Name") /\ same)
                             => Holds(payload, "first_name", formData[k])
                          /\ (k \in KeysOf("Email") /\ same)
                             => Holds(payload, "email", formData[k])

\* C26 witness: a re-send has built a payload for a formData keyed by the
\* dash-free First Name id and the dashed Email id, the first with a number
\* as its value.
C26_Witness ==
    \E i \in DOMAIN normalizer.built :
        /\ Construction(i).route = "resend"
        /\ Construction(i).result.outcome = "built"
        /\ DOMAIN formData = {"4a2b99cf72444e938f292e02c6845960",
                              "5a2aa210-8c3d-485e-878b-0c8dceb0f9bc"}
        /\ formData["4a2b99cf72444e938f292e02c6845960"].type = "number"
        /\ Construction(i).result.payload["first_name"]
              = String(formData["4a2b99cf72444e938f292e02c6845960"])

\* C27 as stated: for every key of the formData a payload is built for,
\* the label resolution gives the table's label when the key is a table id
\* in dashed or dash-free form and the key itself otherwise, and the
\* payload construction that resolves the labels never throws.
C27_LabelResolution ==
    \A i \in DOMAIN normalizer.built :
        /\ \A k \in DOMAIN formData :
               fieldLabel(k) = Str(IF k \in TableKeys THEN TableLabel(k) ELSE k)
        /\ Construction(i).result.outcome # "threw"

\* C27 witness of the divergence: for a formData with the key "constructor"
\* the label is not a string, and the payload construction has thrown.
C27_Witness ==
    /\ "constructor" \in DOMAIN formData
    /\ fieldLabel("constructor").type # "string"
    /\ \E i \in DOMAIN normalizer.built : Construction(i).result.outcome = "threw"

\* C28 as stated: every payload built holds the stored event's and
\* registration's own values under the fixed keys, whatever the keys of
\* formData.
C28_FixedKeysKeepStoredValues ==
    \A i \in DOMAIN normalizer.built :
        Construction(i).result.outcome = "built"
            => LET payload == Construction(i).result.payload
                   event == normalizer.event
                   registration == normalizer.registration
               IN  /\ payload["event_title"] = JsOr(event.title, Str("Unknown Event"))
                   /\ payload["event_description"] = JsOr(event.description, Str(""))
                   /\ payload["event_date"] = JsOr(event.date, Str(""))
                   /\ payload["event_location"] = JsOr(event.location, Str(""))
                   /\ payload["event_start_time"] = JsOr(event.startTime, Str(""))
                   /\ payload["event_end_time"] = JsOr(event.endTime, Str(""))
                   /\ payload["event_capacity"] = JsOr(event.capacity, Num("0"))
                   /\ payload["registration_id"] = registration.id
                   /\ payload["registration_status"] = registration.status
                   /\ payload["webhook_status"]
                         = JsOr(registration.webhookStatus, Str("pending"))
                   /\ payload["submitted_at"] = registration.createdAt

\* C28 witness of the divergence: a payload built for an existing event and
\* a formData with the key "event_title" holds the form value, not the
\* event's title, under event_title.
C28_Witness ==
    \E i \in DOMAIN normalizer.built :
        /\ Construction(i).result.outcome = "built"
        /\ normalizer.event.present
        /\ "event_title" \in DOMAIN formData
        /\ Construction(i).result.payload["event_title"] = formData["event_title"]
        /\ Construction(i).result.payload["event_title"] # normalizer.event.title

\* C29 as stated: with the requests processed one at a time, no existing
\* event has more stored registrations than its capacity.
C29_WithinCapacity ==
    \A e \in DOMAIN events :
        getEventRegistrationCount(registrations, e) <= events[e].capacity

\* C29 witness of the divergence: no request is in flight and an event
\* whose capacity was lowered by PUT /api/events/:id has more registrations
\* than its capacity.
C29_Witness ==
    /\ Idle
    /\ \E e \in DOMAIN events :
           /\ events[e].capacity = 0
           /\ getEventRegistrationCount(registrations, e) > events[e].capacity

\* C30: when every outbound POST of a dispatch settles and every awaited
\* storage call comes back, a dispatch in flight eventually returns its
\* aggregate result to its caller, and a request that dispatches
\* (registration creation, event creation, manual re-send, trigger)
\* eventually responds.
C30_DispatchResponds ==
    \A q \in Solo :
        /\ (req[q].kind \in DispatchKinds /\ req[q].pc = "inflight") ~> req[q].returned
        /\ (req[q].kind \in DispatchKinds /\ req[q].pc \notin {"idle", "done"})
              ~> (req[q].pc = "done")

\* C30 witness: a request has responded after a dispatch whose two
\* deliveries have settled, one of them with a network error.
C30_Witness ==
    \E q \in Solo :
        /\ req[q].kind \in DispatchKinds /\ req[q].pc = "done" /\ req[q].returned
        /\ Cardinality(DOMAIN req[q].deliv) = 2
        /\ \E w \in DOMAIN req[q].deliv : req[q].deliv[w].st = "neterr"

====
